---- MODULE Spec2Model ----
(***************************************************************************)
(* Model of generate_briefing.py: the scrapers (parse_rss and its          *)
(* wrappers, scrape_rundown_ai), the run coordinator of the __main__       *)
(* block and the upsert of a run's results into entries.json (the Issue    *)
(* Index) and source_data.json (the Source Archive).                       *)
(*                                                                         *)
(* Strings are modelled by what the code looks at.  A text is a record     *)
(* [id, len, promo]: which text it is, its length after strip, and the     *)
(* position at which a promotional phrase ends in it (0: none).  A slice   *)
(* text[:n] keeps the first n characters.  A date is the number of the     *)
(* UTC day; date_str and display_date are its two strftime renderings.     *)
(***************************************************************************)
EXTENDS Naturals, Sequences, FiniteSets, TLC

\* ------------------------------------------------------------------ bounds
\* Number of runs of the script, number of distinct UTC days the clock shows,
\* length of the documents built from the item alphabets, length of the
\* documents of distinct qualifying items.
MaxRuns == 2
MaxDate == 2
MaxShort == 2
MaxItems == 7

\* ------------------------------------------------------- program constants
RssLimit == 6
RundownLimit == 6
TitleMax == 120
SummaryMax == 220
RssMinTitle == 5
RundownMinTitle == 10

RundownOrigin == "https://www.therundown.ai"
ArticlesPrefix == "/articles/"

Min(a, b) == IF a < b THEN a ELSE b

\* ------------------------------------------------------------------ strings
\* text[:n]
Slice(text, n) ==
    [id |-> text.id,
     len |-> Min(text.len, n),
     promo |-> IF text.promo <= n THEN text.promo ELSE 0]

Text(id, len) == [id |-> id, len |-> len, promo |-> 0]
PromoText(id, len) == [id |-> id, len |-> len, promo |-> len]
NoText == Text(0, 0)

\* c is the lower-cased text of one <category>; the three flags say which of
\* the substrings "ai", "machine learning", "artificial" it contains.
AiCategory(c) == c.ai \/ c.ml \/ c.artificial

\* ----------------------------------------------------------------- scrapers
\* SCRAPERS, in dictionary order, with the arguments each wrapper passes to
\* parse_rss.
SCRAPERS ==
    << [slug |-> "techcrunch",  kind |-> "rss",  ai_filter |-> FALSE],
       [slug |-> "rundown",     kind |-> "page", ai_filter |-> FALSE],
       [slug |-> "verge",       kind |-> "rss",  ai_filter |-> FALSE],
       [slug |-> "venturebeat", kind |-> "rss",  ai_filter |-> TRUE],
       [slug |-> "nyt",         kind |-> "rss",  ai_filter |-> FALSE],
       [slug |-> "mit",         kind |-> "rss",  ai_filter |-> FALSE] >>

\* The loop of parse_rss over soup.find_all("item"), from item k on, with the
\* stories collected so far.  resp.raise_at = k: handling item k raises.
\* The result says whether the loop ended by an exception.
RECURSIVE rss_loop(_, _, _, _, _)
rss_loop(resp, limit, ai_filter, k, stories) ==
    IF k > Len(resp.body) THEN [raised |-> FALSE, stories |-> stories]
    ELSE IF resp.raise_at = k THEN [raised |-> TRUE, stories |-> stories]
    ELSE LET item == resp.body[k] IN
         IF ~item.has_title \/ ~item.has_link
         THEN rss_loop(resp, limit, ai_filter, k + 1, stories)
         ELSE IF ai_filter /\ ~(\E c \in 1..Len(item.cats) : AiCategory(item.cats[c]))
         THEN rss_loop(resp, limit, ai_filter, k + 1, stories)
         ELSE LET summary == IF item.has_desc
                             THEN Slice(item.desc, SummaryMax)
                             ELSE NoText
                  appended == IF item.title.len > RssMinTitle
                              THEN Append(stories,
                                          [title |-> Slice(item.title, TitleMax),
                                           link |-> <<item.link>>,
                                           summary |-> summary])
                              ELSE stories
              IN IF Len(appended) >= limit
                 THEN [raised |-> FALSE, stories |-> appended]
                 ELSE rss_loop(resp, limit, ai_filter, k + 1, appended)

\* parse_rss without the break of lines 138-139: the limit is never reached.
parse_rss_NoBreak(resp, limit, ai_filter) ==
    IF resp.error
    THEN [raised |-> TRUE, stories |-> <<>>]
    ELSE rss_loop(resp, Len(resp.body) + 1, ai_filter, 1, <<>>)

\* parse_rss: requests.get raises on a network error or timeout; the status
\* of the response is not looked at; every exception is raised again.
parse_rss(resp, limit, ai_filter) ==
    IF resp.error
    THEN [raised |-> TRUE, stories |-> <<>>]
    ELSE rss_loop(resp, limit, ai_filter, 1, <<>>)

\* A wrapper without its try/except: the exception of parse_rss reaches the
\* caller.
scrape_rss_NoCatch(resp, ai_filter) ==
    LET r == parse_rss(resp, RssLimit, ai_filter) IN
    [raised |-> r.raised,
     escaped |-> r.raised,
     stories |-> IF r.raised THEN <<>> ELSE r.stories]

\* scrape_techcrunch_ai, scrape_verge_ai, scrape_venturebeat_ai,
\* scrape_nytimes_ai, scrape_mit_ai: parse_rss with the default limit; the
\* wrapper catches every exception and returns [].  escaped: the exception
\* leaves the scraper and reaches the caller.
scrape_rss(resp, ai_filter) ==
    LET r == parse_rss(resp, RssLimit, ai_filter) IN
    [raised |-> r.raised,
     escaped |-> FALSE,
     stories |-> IF r.raised THEN <<>> ELSE r.stories]

\* The loop of scrape_rundown_ai over soup.find_all("a", href=True): the body
\* is the list of the anchors that have an href.
RECURSIVE rundown_loop(_, _, _, _)
rundown_loop(resp, k, seen, stories) ==
    IF k > Len(resp.body) THEN [raised |-> FALSE, stories |-> stories]
    ELSE IF resp.raise_at = k THEN [raised |-> TRUE, stories |-> stories]
    ELSE LET a == resp.body[k]
             href == a.href
         IN
         IF href.prefix # ArticlesPrefix
         THEN rundown_loop(resp, k + 1, seen, stories)
         ELSE LET title == IF a.has_p THEN a.text ELSE Slice(a.text, TitleMax)
                  take == href \notin seen /\ title.len > RundownMinTitle
                  seen2 == IF take THEN seen \cup {href} ELSE seen
                  appended == IF take
                              THEN Append(stories,
                                          [title |-> title,
                                           link |-> <<RundownOrigin, href.prefix, href.rest>>,
                                           summary |-> NoText])
                              ELSE stories
              IN IF Len(appended) >= RundownLimit
                 THEN [raised |-> FALSE, stories |-> appended]
                 ELSE rundown_loop(resp, k + 1, seen2, appended)

\* scrape_rundown_ai: the except clause logs, and the function returns the
\* list as it stands.
scrape_rundown_ai(resp) ==
    LET r == IF resp.error
             THEN [raised |-> TRUE, stories |-> <<>>]
             ELSE rundown_loop(resp, 1, {}, <<>>)
    IN [raised |-> r.raised, escaped |-> FALSE, stories |-> r.stories]

\* scraper() of line 772 for the entry sc of SCRAPERS.
Scrape(sc, resp) ==
    IF sc.kind = "page"
    THEN scrape_rundown_ai(resp)
    ELSE scrape_rss(resp, sc.ai_filter)

\* ---------------------------------------------------------- data management
\* A JSON file: whether it exists and the value it holds.
NoFile(default) == [exists |-> FALSE, data |-> default]

load_json(file, default) == IF file.exists THEN file.data ELSE default

save_json(data) == [exists |-> TRUE, data |-> data]

\* now.strftime("%Y-%m-%d") and now.strftime("%B %d, %Y") of the UTC day now.
DateStr(now) == <<"%Y-%m-%d", now>>
DisplayDate(now) == <<"%B %d, %Y", now>>

\* next((i for i, e in enumerate(seq) if e["date_str"] == date), None), 0 for None
FirstWithDate(seq, date) ==
    IF \E i \in 1..Len(seq) : seq[i].date_str = date
    THEN CHOOSE i \in 1..Len(seq) :
            /\ seq[i].date_str = date
            /\ \A j \in 1..(i - 1) : seq[j].date_str # date
    ELSE 0

\* Step 2 without the "if stories" of line 777.
FilterResults_NoFilter(order, raw) ==
    [k \in 1..Len(order) |-> <<order[k], raw[order[k]]>>]

\* Step 2: results and successful_slugs, in the order of raw_results.
FilterResults(order, raw) ==
    LET NonEmpty(slug) == slug \in DOMAIN raw /\ raw[slug] # <<>>
        active == SelectSeq(order, NonEmpty)
    IN [k \in 1..Len(active) |-> <<active[k], raw[active[k]]>>]

\* Step 2 listing every slug of SCRAPERS instead of the slugs of results.
SuccessfulSlugs_All(res) == [k \in 1..Len(SCRAPERS) |-> SCRAPERS[k].slug]

SuccessfulSlugs(res) == [k \in 1..Len(res) |-> res[k][1]]

\* Step 4 without the lookup of line 790: the entry is always inserted.
UpsertEntries_AlwaysInsert(ents, date, display, slugs) ==
    <<[date_str |-> date, display_date |-> display, sources |-> slugs]>> \o ents

\* Step 4, lines 790-798.
UpsertEntries(ents, date, display, slugs) ==
    LET i == FirstWithDate(ents, date) IN
    IF i # 0
    THEN [ents EXCEPT ![i].sources = slugs]
    ELSE <<[date_str |-> date, display_date |-> display, sources |-> slugs]>> \o ents

\* Step 5 assigning the list of the slug instead of inserting into it.
UpsertSlug_DropHistory(sd, slug, stories, date, display) ==
    LET sd1 == IF slug \notin DOMAIN sd THEN sd @@ (slug :> <<>>) ELSE sd
        i == FirstWithDate(sd1[slug], date)
    IN IF i # 0
       THEN [sd1 EXCEPT ![slug][i].articles = stories]
       ELSE [sd1 EXCEPT ![slug] =
                <<[date_str |-> date, display_date |-> display, articles |-> stories]>>]

\* Step 5, lines 804-814, for one (slug, stories) of results.
UpsertSlug(sd, slug, stories, date, display) ==
    LET sd1 == IF slug \notin DOMAIN sd THEN sd @@ (slug :> <<>>) ELSE sd
        i == FirstWithDate(sd1[slug], date)
    IN IF i # 0
       THEN [sd1 EXCEPT ![slug][i].articles = stories]
       ELSE [sd1 EXCEPT ![slug] =
                <<[date_str |-> date, display_date |-> display, articles |-> stories]>> \o @]

\* Step 5 that, after its loop, also removes the entry of the date from the
\* slugs that are not in results.
RECURSIVE UpsertSourceData_ClearStale(_, _, _, _, _)
UpsertSourceData_ClearStale(sd, res, k, date, display) ==
    IF k > Len(res)
    THEN [slug \in DOMAIN sd |->
            IF \E j \in 1..Len(res) : res[j][1] = slug
            THEN sd[slug]
            ELSE SelectSeq(sd[slug], LAMBDA e : e.date_str # date)]
    ELSE UpsertSourceData_ClearStale(UpsertSlug(sd, res[k][1], res[k][2], date, display),
                                     res, k + 1, date, display)

\* Step 5, the loop of line 803 from results[k] on.
RECURSIVE UpsertSourceData(_, _, _, _, _)
UpsertSourceData(sd, res, k, date, display) ==
    IF k > Len(res) THEN sd
    ELSE UpsertSourceData(UpsertSlug(sd, res[k][1], res[k][2], date, display),
                          res, k + 1, date, display)

\* raw_results[slug] = stories, line 773.
SetResult(raw, slug, stories) ==
    [s \in DOMAIN raw \cup {slug} |-> IF s = slug THEN stories ELSE raw[s]]

\* ------------------------------------------------------------- environment
\* What one HTTP GET gives: requests.get raised (error), or a response with a
\* status and a parsed body; raise_at = k > 0: the handling of the k-th item
\* of the body raises.
HttpStatuses == {200, 500}

FetchError == [error |-> TRUE, status |-> 0, body |-> <<>>, raise_at |-> 0]
Response(status, body, raise_at) ==
    [error |-> FALSE, status |-> status, body |-> body, raise_at |-> raise_at]

NoCats == <<>>
AiCats == <<[ai |-> TRUE, ml |-> FALSE, artificial |-> FALSE]>>
OtherCats == <<[ai |-> FALSE, ml |-> FALSE, artificial |-> FALSE]>>

\* <item><title>..</title><link>..</link><category>..</category>
\* <description>..</description></item>
Item(title, link, cats, desc) ==
    [has_title |-> TRUE, title |-> title, has_link |-> TRUE, link |-> link,
     cats |-> cats, has_desc |-> TRUE, desc |-> desc]

\* <a href=prefix+rest>text</a>, or <a href=..><p>text</p></a> when has_p
Anchor(prefix, rest, has_p, text) ==
    [href |-> [prefix |-> prefix, rest |-> rest], has_p |-> has_p, text |-> text]

\* The responses of the runs: a few documents for each scraper.
FeedA == <<Item(Text(1, 40), 1, AiCats, Text(11, 80)),
           Item(Text(2, 60), 2, AiCats, Text(12, 300))>>
FeedB == <<Item(Text(3, 50), 3, AiCats, Text(13, 20))>>
FeedMixed == <<Item(Text(4, 50), 4, OtherCats, Text(14, 20)),
              Item(Text(5, 70), 5, AiCats, Text(15, 90))>>
PageA == <<Anchor(ArticlesPrefix, 1, FALSE, Text(21, 40)),
           Anchor(ArticlesPrefix, 2, FALSE, Text(22, 60))>>

RunResponses(sc) ==
    IF sc.kind = "page"
    THEN {FetchError, Response(200, PageA, 0)}
    ELSE IF sc.ai_filter
    THEN {FetchError, Response(200, FeedMixed, 0)}
    ELSE {FetchError, Response(200, FeedA, 0), Response(200, FeedB, 0)}

\* The run model iterates over one scraper of each shape: the wrappers of
\* verge, nyt and mit are the wrapper of techcrunch with another URL.
Configured == <<SCRAPERS[1], SCRAPERS[2], SCRAPERS[4]>>

ConfiguredSlugs == [k \in 1..Len(Configured) |-> Configured[k].slug]

Dates == 1..MaxDate

\* -------------------------------------------------------------------- state
VARIABLES
    pc,                \* where the script is
    runs,              \* number of runs started
    now,               \* the UTC day read at line 762
    net,               \* slug -> what the network gave the scraper in this run
    raised,            \* the slugs whose scraper met an exception in this run
    raw_results,       \* slug -> stories, line 769
    results,           \* line 777
    successful_slugs,  \* line 778
    entries,           \* line 789
    source_data,       \* line 802
    entries_file,      \* entries.json
    source_data_file,  \* source_data.json
    failed,            \* the step at which the run was aborted, "" if none
    start_files,       \* the two files as they were when the run started
    writes,            \* how many times the run has written each file
    last_done          \* day -> raw_results of the last run of that day that finished

vars == <<pc, runs, now, net, raised, raw_results, results, successful_slugs,
          entries, source_data, entries_file, source_data_file, failed, start_files,
          writes, last_done>>

date_str == DateStr(now)
display_date == DisplayDate(now)

NotDone == [done |-> FALSE, raw |-> <<>>]
NoWrites == [entries |-> 0, source_data |-> 0]

Init ==
    /\ pc = "idle"
    /\ runs = 0
    /\ now = 1
    /\ net = <<>>
    /\ raised = {}
    /\ raw_results = <<>>
    /\ results = <<>>
    /\ successful_slugs = <<>>
    /\ entries = <<>>
    /\ source_data = <<>>
    /\ entries_file = NoFile(<<>>)
    /\ source_data_file = NoFile(<<>>)
    /\ failed = ""
    /\ start_files = [entries |-> entries_file, source_data |-> source_data_file]
    /\ writes = NoWrites
    /\ last_done = [d \in Dates |-> NotDone]

\* The script is started (lines 761-769): the clock is read, whatever it shows.
StartRun ==
    /\ pc \in {"idle", "done", "aborted"}
    /\ runs < MaxRuns
    /\ runs' = runs + 1
    /\ \E d \in Dates : now' = d
    /\ pc' = "scrape"
    /\ net' = <<>>
    /\ raised' = {}
    /\ raw_results' = <<>>
    /\ results' = <<>>
    /\ successful_slugs' = <<>>
    /\ entries' = <<>>
    /\ source_data' = <<>>
    /\ failed' = ""
    /\ start_files' = [entries |-> entries_file, source_data |-> source_data_file]
    /\ writes' = NoWrites
    /\ UNCHANGED <<entries_file, source_data_file, last_done>>

\* A loop of line 770 that is left after its first iteration.
ScrapeLoopDone_Early(raw) == Cardinality(DOMAIN raw) >= 1

\* The for loop of line 770 has gone through every scraper.
ScrapeLoopDone(raw) == Cardinality(DOMAIN raw) = Len(Configured)

\* One iteration of the loop of lines 770-774 with the response resp.
ScrapeWith(sc, resp) ==
    LET r == Scrape(sc, resp) IN
    /\ net' = SetResult(net, sc.slug, resp)
    /\ raised' = IF r.raised THEN raised \cup {sc.slug} ELSE raised
    /\ IF r.escaped
       THEN /\ pc' = "aborted"
            /\ failed' = "scrape"
            /\ UNCHANGED raw_results
       ELSE /\ raw_results' = SetResult(raw_results, sc.slug, r.stories)
            /\ pc' = IF ScrapeLoopDone(raw_results') THEN "filter" ELSE "scrape"
            /\ UNCHANGED failed

ScrapeNext ==
    /\ pc = "scrape"
    /\ LET sc == Configured[Cardinality(DOMAIN raw_results) + 1] IN
       \E resp \in RunResponses(sc) : ScrapeWith(sc, resp)
    /\ UNCHANGED <<runs, now, results, successful_slugs, entries, source_data,
                   entries_file, source_data_file, start_files, writes,
                   last_done>>

\* Step 2, lines 777-778.
Filter ==
    /\ pc = "filter"
    /\ results' = FilterResults(ConfiguredSlugs, raw_results)
    /\ successful_slugs' = SuccessfulSlugs(results')
    /\ pc' = "briefing"
    /\ UNCHANGED <<runs, now, net, raised, raw_results, entries, source_data,
                   entries_file, source_data_file, failed, start_files, writes,
                   last_done>>

\* Step 3, lines 782-786: the page of the day is written; no store is touched.
WriteBriefing ==
    /\ pc = "briefing"
    /\ pc' = "load_entries"
    /\ UNCHANGED <<runs, now, net, raised, raw_results, results, successful_slugs,
                   entries, source_data, entries_file, source_data_file, failed,
                   start_files, writes,
                   last_done>>

\* Step 4, lines 789-798: load entries.json and upsert the entry of today.
UpdateEntries ==
    /\ pc = "load_entries"
    /\ entries' = UpsertEntries(load_json(entries_file, <<>>), date_str,
                                display_date, successful_slugs)
    /\ pc' = "save_entries"
    /\ UNCHANGED <<runs, now, net, raised, raw_results, results, successful_slugs,
                   source_data, entries_file, source_data_file, failed, start_files, writes,
                   last_done>>

\* Line 799.
SaveEntries ==
    /\ pc = "save_entries"
    /\ entries_file' = save_json(entries)
    /\ writes' = [writes EXCEPT !.entries = @ + 1]
    /\ pc' = "load_source_data"
    /\ UNCHANGED <<runs, now, net, raised, raw_results, results, successful_slugs,
                   entries, source_data, source_data_file, failed, start_files,
                   last_done>>

\* Step 5, lines 802-814.
UpdateSourceData ==
    /\ pc = "load_source_data"
    /\ source_data' = UpsertSourceData(load_json(source_data_file, <<>>), results, 1,
                                       date_str, display_date)
    /\ pc' = "save_source_data"
    /\ UNCHANGED <<runs, now, net, raised, raw_results, results, successful_slugs,
                   entries, entries_file, source_data_file, failed, start_files, writes,
                   last_done>>

\* Line 815.
SaveSourceData ==
    /\ pc = "save_source_data"
    /\ source_data_file' = save_json(source_data)
    /\ writes' = [writes EXCEPT !.source_data = @ + 1]
    /\ pc' = "render"
    /\ UNCHANGED <<runs, now, net, raised, raw_results, results, successful_slugs,
                   entries, source_data, entries_file, failed, start_files,
                   last_done>>

\* Steps 6 and 7, lines 818-839: the pages are rebuilt from entries and
\* source_data; the run is finished.
Render ==
    /\ pc = "render"
    /\ pc' = "done"
    /\ last_done' = [last_done EXCEPT ![now] = [done |-> TRUE, raw |-> raw_results]]
    /\ UNCHANGED <<runs, now, net, raised, raw_results, results, successful_slugs,
                   entries, source_data, entries_file, source_data_file, failed,
                   start_files, writes>>

\* open(), json.load, json.dump or a page write raises OSError (or json.load
\* a decode error): nothing catches it and the script ends there.  The file
\* the failing call was about is as it was.
IOSteps == {"briefing", "load_entries", "save_entries", "load_source_data",
            "save_source_data", "render"}

StorageError ==
    /\ pc \in IOSteps
    /\ failed' = pc
    /\ pc' = "aborted"
    /\ UNCHANGED <<runs, now, net, raised, raw_results, results, successful_slugs,
                   entries, source_data, entries_file, source_data_file, start_files, writes,
                   last_done>>

Next ==
    \/ StartRun
    \/ ScrapeNext
    \/ Filter
    \/ WriteBriefing
    \/ UpdateEntries
    \/ SaveEntries
    \/ UpdateSourceData
    \/ SaveSourceData
    \/ Render
    \/ StorageError

Spec == Init /\ [][Next]_vars

\* The runs in which no storage call fails.
NextClean ==
    \/ StartRun
    \/ ScrapeNext
    \/ Filter
    \/ WriteBriefing
    \/ UpdateEntries
    \/ SaveEntries
    \/ UpdateSourceData
    \/ SaveSourceData
    \/ Render

SpecClean == Init /\ [][NextClean]_vars

\* ------------------------------------------------ the scrapers on their own
\* One call of one scraper of SCRAPERS on a document drawn from the item
\* alphabets below: every document of at most MaxShort items, and the
\* documents of 1..MaxItems distinct qualifying items, with every status and
\* every place for an exception.
SeqsUpTo(S, n) == UNION {[1..m -> S] : m \in 0..n}

FeedItems ==
    { Item(Text(1, 40), 1, AiCats, Text(11, 80)),
      Item(Text(2, 60), 1, AiCats, Text(12, 221)),
      Item(Text(3, 121), 3, OtherCats, Text(13, 220)),
      Item(Text(4, 5), 4, NoCats, Text(14, 20)),
      [Item(Text(5, 40), 5, AiCats, Text(15, 20)) EXCEPT !.has_title = FALSE],
      [Item(Text(6, 6), 6, AiCats, NoText) EXCEPT !.has_desc = FALSE] }

Anchors ==
    { Anchor(ArticlesPrefix, 1, FALSE, Text(21, 40)),
      Anchor(ArticlesPrefix, 1, FALSE, Text(22, 60)),
      Anchor(ArticlesPrefix, 2, TRUE, Text(23, 121)),
      Anchor(ArticlesPrefix, 3, FALSE, Text(24, 130)),
      Anchor("/subscribe/", 4, FALSE, Text(25, 40)),
      Anchor(ArticlesPrefix, 5, FALSE, Text(26, 10)),
      Anchor(ArticlesPrefix, 6, FALSE, PromoText(27, 29)) }

LongFeed(n) == [k \in 1..n |-> Item(Text(100 + k, 40), 100 + k, AiCats, Text(200 + k, 80))]
LongPage(n) == [k \in 1..n |-> Anchor(ArticlesPrefix, 100 + k, FALSE, Text(100 + k, 40))]

Documents(sc) ==
    IF sc.kind = "page"
    THEN SeqsUpTo(Anchors, MaxShort) \cup {LongPage(n) : n \in 1..MaxItems}
    ELSE SeqsUpTo(FeedItems, MaxShort) \cup {LongFeed(n) : n \in 1..MaxItems}

Responses(sc) ==
    {FetchError} \cup
    UNION { {Response(st, body, k) : st \in HttpStatuses, k \in 0..Len(body)}
            : body \in Documents(sc) }

InitExtract ==
    /\ pc = "extract"
    /\ runs = 1
    /\ now = 1
    /\ \E k \in 1..Len(SCRAPERS) : \E resp \in Responses(SCRAPERS[k]) :
          net = SetResult(<<>>, SCRAPERS[k].slug, resp)
    /\ raised = {}
    /\ raw_results = <<>>
    /\ results = <<>>
    /\ successful_slugs = <<>>
    /\ entries = <<>>
    /\ source_data = <<>>
    /\ entries_file = NoFile(<<>>)
    /\ source_data_file = NoFile(<<>>)
    /\ failed = ""
    /\ start_files = [entries |-> entries_file, source_data |-> source_data_file]
    /\ writes = NoWrites
    /\ last_done = [d \in Dates |-> NotDone]

\* stories = scraper(); raw_results[slug] = stories, for the scraper drawn.
Extract(kind) ==
    /\ pc = "extract"
    /\ \E k \in 1..Len(SCRAPERS) :
          LET sc == SCRAPERS[k] IN
          /\ sc.kind = kind
          /\ sc.slug \in DOMAIN net
          /\ LET r == Scrape(sc, net[sc.slug]) IN
             /\ raised' = IF r.raised THEN {sc.slug} ELSE {}
             /\ raw_results' = SetResult(raw_results, sc.slug, r.stories)
             /\ pc' = IF r.escaped THEN "aborted" ELSE "extracted"
             /\ failed' = IF r.escaped THEN "scrape" ELSE ""
    /\ UNCHANGED <<runs, now, net, results, successful_slugs, entries, source_data,
                   entries_file, source_data_file, start_files, writes,
                   last_done>>

ExtractRss == Extract("rss")
ExtractPage == Extract("page")

NextExtract == ExtractRss \/ ExtractPage

SpecExtract == InitExtract /\ [][NextExtract]_vars

\* ------------------------------------------------------------------- claims
Range(seq) == {seq[i] : i \in 1..Len(seq)}
WithDate(seq, date) == {i \in 1..Len(seq) : seq[i].date_str = date}
OtherDates(seq, date) == SelectSeq(seq, LAMBDA e : e.date_str # date)
ActiveSlugs == {slug \in DOMAIN raw_results : raw_results[slug] # <<>>}
IssueIndex == entries_file.data
SourceArchive == source_data_file.data
ScraperOf(slug) == CHOOSE sc \in Range(SCRAPERS) : sc.slug = slug
StorageSteps == {"load_entries", "save_entries", "load_source_data", "save_source_data"}
Merged == pc \in {"render", "done"}

\* C1 (idempotent rerun): once a run has written both stores, the Issue Index
\* holds exactly one entry for the run's date, the Source Archive at most one
\* entry for any (slug, date), and the entries of the date carry this run's
\* data: the sources are the run's active slugs and every active slug's
\* articles are the stories of this run, also when an earlier run of the same
\* date had other results.
C1_IdempotentRerun ==
    /\ \A d \in Dates : Cardinality(WithDate(IssueIndex, DateStr(d))) <= 1
    /\ \A slug \in DOMAIN SourceArchive : \A d \in Dates :
          Cardinality(WithDate(SourceArchive[slug], DateStr(d))) <= 1
    /\ Merged =>
          /\ Cardinality(WithDate(IssueIndex, date_str)) = 1
          /\ \A i \in WithDate(IssueIndex, date_str) :
                /\ IssueIndex[i].sources = successful_slugs
                /\ Range(IssueIndex[i].sources) = ActiveSlugs
          /\ \A slug \in ActiveSlugs :
                /\ slug \in DOMAIN SourceArchive
                /\ \E i \in WithDate(SourceArchive[slug], date_str) :
                      SourceArchive[slug][i].articles = raw_results[slug]

\* A second run of a date has written both stores; the first run of the date
\* had other stories for techcrunch and had rundown active, which now failed.
C1_RerunWitness ==
    /\ pc = "render"
    /\ last_done[now].done
    /\ last_done[now].raw["techcrunch"] # <<>>
    /\ raw_results["techcrunch"] # <<>>
    /\ last_done[now].raw["techcrunch"] # raw_results["techcrunch"]
    /\ last_done[now].raw["rundown"] # <<>>
    /\ raw_results["rundown"] = <<>>
    /\ \E i \in WithDate(SourceArchive["techcrunch"], date_str) :
          SourceArchive["techcrunch"][i].articles = raw_results["techcrunch"]

C3_ActiveSources ==
    pc \in {"load_source_data", "save_source_data", "render", "done"} =>
        /\ WithDate(IssueIndex, date_str) # {}
        /\ \A i \in WithDate(IssueIndex, date_str) :
              /\ Range(IssueIndex[i].sources) =
                    {slug \in Range(ConfiguredSlugs) : raw_results[slug] # <<>>}
              /\ Cardinality(Range(IssueIndex[i].sources)) = Len(IssueIndex[i].sources)

\* The entry of the date existed with other sources and has just been
\* updated, in a run where one source failed and another returned stories.
C3_UpdatedWitness ==
    /\ pc = "load_source_data"
    /\ \E i \in WithDate(start_files.entries.data, date_str) :
          Range(start_files.entries.data[i].sources) # ActiveSlugs
    /\ ActiveSlugs # {}
    /\ raised # {}

\* C4 (dedup): the list a scraper returns holds no two stories with the same
\* link.
C4_Dedup ==
    \A slug \in DOMAIN raw_results :
        \A i, j \in 1..Len(raw_results[slug]) :
            i # j => raw_results[slug][i].link # raw_results[slug][j].link

\* C5 (exception containment): a scraper in which an exception was raised
\* returns the empty list.
C5_ExceptionGivesEmpty ==
    \A slug \in DOMAIN raw_results :
        slug \in raised => raw_results[slug] = <<>>

\* C6 (all-or-nothing persistence): when a run is aborted by a storage error,
\* both files are as they were when the run started.
C6_AllOrNothing ==
    (pc = "aborted" /\ failed \in StorageSteps) =>
        /\ entries_file = start_files.entries
        /\ source_data_file = start_files.source_data

\* C7 (failure isolation): the stories of a source are those its scraper gives
\* on the response that source got, whatever the other sources got; no
\* scraper's failure aborts the run; a finished run leaves exactly one entry
\* for its date.
C7_FailureIsolation ==
    /\ \A slug \in DOMAIN raw_results :
          raw_results[slug] = Scrape(ScraperOf(slug), net[slug]).stories
    /\ pc = "aborted" => failed \in IOSteps
    /\ \A slug \in raised : slug \in DOMAIN raw_results
    /\ pc = "done" => Cardinality(WithDate(IssueIndex, date_str)) = 1

\* A run finished in which techcrunch and venturebeat failed and rundown
\* returned its stories.
C7_IsolationWitness ==
    /\ pc = "done"
    /\ raised = {"techcrunch", "venturebeat"}
    /\ raw_results["rundown"] = Scrape(ScraperOf("rundown"), Response(200, PageA, 0)).stories
    /\ raw_results["rundown"] # <<>>
    /\ \E i \in WithDate(IssueIndex, date_str) : IssueIndex[i].sources = <<"rundown">>

\* C8 (issue index ordering): the Issue Index is ordered by date, newest
\* first.
C8_NewestFirst ==
    \A i, j \in 1..Len(IssueIndex) :
        i < j => IssueIndex[i].date_str[2] > IssueIndex[j].date_str[2]

\* C9 (field bounds): every story a scraper returns has a title of at most
\* 120 characters and a summary of at most 220.
C9_FieldBounds ==
    \A slug \in DOMAIN raw_results :
        \A i \in 1..Len(raw_results[slug]) :
            /\ raw_results[slug][i].title.len <= TitleMax
            /\ raw_results[slug][i].summary.len <= SummaryMax

\* C10 (promotional filter): no story returned by the page scraper has a title
\* that contains a promotional phrase.
C10_PromoFilter ==
    "rundown" \in DOMAIN raw_results =>
        \A i \in 1..Len(raw_results["rundown"]) :
            raw_results["rundown"][i].title.promo = 0

\* C11 (cap enforcement): the list a scraper returns has at most 6 stories,
\* whatever the document; a document with more qualifying items gives exactly
\* the first 6.
C11_Cap ==
    \A slug \in DOMAIN raw_results :
        /\ Len(raw_results[slug]) <=
              (IF ScraperOf(slug).kind = "page" THEN RundownLimit ELSE RssLimit)
        /\ \A n \in 1..MaxItems :
              (~net[slug].error /\ net[slug].raise_at = 0 /\
               net[slug].body = (IF ScraperOf(slug).kind = "page"
                                 THEN LongPage(n) ELSE LongFeed(n)))
              => Len(raw_results[slug]) = Min(n, RssLimit)

\* A feed of more than 6 distinct qualifying items was parsed without an
\* exception and gave 6 stories, the sixth being the sixth item.
C11_CapWitness ==
    \E slug \in DOMAIN raw_results :
        /\ ScraperOf(slug).kind = "rss"
        /\ ~net[slug].error
        /\ net[slug].raise_at = 0
        /\ net[slug].body = LongFeed(RssLimit + 1)
        /\ Len(raw_results[slug]) = RssLimit
        /\ raw_results[slug][RssLimit].link = <<net[slug].body[RssLimit].link>>

\* An HTTP status of 400 or above, the statuses requests calls not ok.
NonSuccess(status) == status >= 400

\* C13 (non-success status is a fetch failure): a source whose response has a
\* non-success status returns the empty list, whatever the body holds.
C13_StatusFailure ==
    \A slug \in DOMAIN raw_results :
        (~net[slug].error /\ NonSuccess(net[slug].status)) => raw_results[slug] = <<>>

\* C12 (merge-once ordering): neither file is written before every
\* configured source has been scraped; no file is written twice in a run;
\* while sources are still being scraped both files are as the run found
\* them; a run that got past its last save has written each file once.
C12_MergeOnce ==
    /\ writes.entries <= 1
    /\ writes.source_data <= 1
    /\ (\/ writes # NoWrites
        \/ entries_file # start_files.entries
        \/ source_data_file # start_files.source_data)
          => DOMAIN raw_results = Range(ConfiguredSlugs)
    /\ pc \in {"scrape", "filter", "briefing", "load_entries", "save_entries"} =>
          /\ writes = NoWrites
          /\ entries_file = start_files.entries
          /\ source_data_file = start_files.source_data
    /\ Merged => writes = [entries |-> 1, source_data |-> 1]

\* A run finished after writing each file once, with rundown failed and
\* techcrunch active.
C12_WriteOnceWitness ==
    /\ pc = "done"
    /\ writes = [entries |-> 1, source_data |-> 1]
    /\ DOMAIN raw_results = Range(ConfiguredSlugs)
    /\ "rundown" \in raised
    /\ raw_results["techcrunch"] # <<>>
    /\ entries_file # start_files.entries
    /\ source_data_file # start_files.source_data

\* What source_data.json holds for a slug: whether the key is there, and its
\* list.
SlugArchive(file, slug) ==
    IF slug \in DOMAIN file.data THEN <<TRUE, file.data[slug]>> ELSE <<FALSE, <<>>>>

\* C14 (inactive slugs untouched): no step of a run changes what
\* source_data.json holds for a slug whose scraper returned the empty list in
\* that run: no key and no entry is created, and an entry an earlier run left
\* for the same date keeps its articles.
C14_InactiveUntouched ==
    [][ \A slug \in Range(ConfiguredSlugs) :
            (slug \in DOMAIN raw_results /\ raw_results[slug] = <<>>)
            => SlugArchive(source_data_file', slug) = SlugArchive(source_data_file, slug)
      ]_vars

\* A rerun of a date has written both files: rundown, active in the earlier
\* run, returned nothing and still has its articles of the date although the
\* entry of the date no longer lists it; venturebeat returned nothing and has
\* no key.
C14_StaleWitness ==
    /\ pc = "render"
    /\ raw_results["rundown"] = <<>>
    /\ "rundown" \in DOMAIN SourceArchive
    /\ \E i \in WithDate(SourceArchive["rundown"], date_str) :
          SourceArchive["rundown"][i].articles # <<>>
    /\ \A i \in WithDate(IssueIndex, date_str) :
          "rundown" \notin Range(IssueIndex[i].sources)
    /\ raw_results["venturebeat"] = <<>>
    /\ "venturebeat" \notin DOMAIN SourceArchive
    /\ ActiveSlugs # {}

\* C15 (cross-store consistency): in runs without storage error, no entry of
\* the Source Archive has an empty articles list, and, except between the two
\* saves of a run, every slug listed in an Issue Entry has an entry of that
\* date in the Source Archive.
C15_CrossStore ==
    /\ \A slug \in DOMAIN SourceArchive : \A i \in 1..Len(SourceArchive[slug]) :
          SourceArchive[slug][i].articles # <<>>
    /\ pc \notin {"load_source_data", "save_source_data"} =>
          \A i \in 1..Len(IssueIndex) : \A slug \in Range(IssueIndex[i].sources) :
              /\ slug \in DOMAIN SourceArchive
              /\ \E j \in WithDate(SourceArchive[slug], IssueIndex[i].date_str) :
                    SourceArchive[slug][j].articles # <<>>

\* Two runs of one date finished: the first had only techcrunch active, the
\* second only venturebeat; the entry lists venturebeat and the archive holds
\* the date for both.
C15_RerunWitness ==
    /\ pc = "done"
    /\ \E i \in WithDate(IssueIndex, date_str) : IssueIndex[i].sources = <<"venturebeat">>
    /\ DOMAIN SourceArchive = {"techcrunch", "venturebeat"}
    /\ WithDate(SourceArchive["techcrunch"], date_str) # {}
    /\ WithDate(SourceArchive["venturebeat"], date_str) # {}

====
